---- MODULE Spec2Model ----
(***************************************************************************)
(* A model of convert.py (KML point -> DJI mission waypoint converter).     *)
(*                                                                         *)
(* Strings are sequences of one-character strings.  A markup document is   *)
(* either Malformed (ET.parse raises) or holds the sequence of the nodes    *)
(* the code looks up, in document order.  Python's None is the value None. *)
(***************************************************************************)
EXTENDS Integers, Sequences, FiniteSets, TLC

VARIABLES
    pc,                  \* position of the operation under way
    base_kml,            \* base_kml/base.kml: Missing, Malformed or its coordinate nodes
    input_points_kml,    \* input_points_kml/: NoDir or a function file name -> document
    glob_order,          \* the order in which glob("*.kml") enumerated the files
    files,               \* sorted files get_destination_points still has to parse
    base_point,          \* process_all_points: base_point
    destination_points,  \* get_destination_points: destination_points
    i,                   \* process_all_points: loop counter of enumerate(.., 1)
    output_paths,        \* output_paths/: function file name -> content
    written,             \* the file names given to open(.., 'w'), in order
    kml_file,            \* argument of parse_all_kml_points
    points,              \* result of parse_all_kml_points
    html_text,           \* argument of extract_html_table_attribute_from_text
    attribute,           \* result of extract_html_table_attribute_from_text
    mission_name,        \* a string given to both sanitization sites
    clean_name,          \* create_dji_mission_kml: clean_name
    clean_attribute      \* process_all_points: clean_attribute

vars == <<pc, base_kml, input_points_kml, glob_order, files, base_point,
          destination_points, i, output_paths, written, kml_file, points,
          html_text, attribute, mission_name, clean_name, clean_attribute>>

runVars == <<base_kml, input_points_kml, glob_order, files, base_point,
             destination_points, i, output_paths, written>>

\* Python's None
None == <<"<None>">>

\* bounds of the model
MaxLen == 3          \* length of the strings given to the sanitization
MaxTokens == 3       \* tokens of an annotation
MaxNodes == 2        \* coordinate nodes of base.kml
MaxPlacemarks == 3   \* placemarks of the document given to parse_all_kml_points
MaxDocs == 2         \* files of input_points_kml/
MaxMarkers == 3      \* placemarks of the files of input_points_kml/ together

(***************************************************************************)
(* Characters and the two regular-expression substitutions                 *)
(***************************************************************************)
DigitChars == <<"0", "1", "2", "3", "4", "5", "6", "7", "8", "9">>

\* re: \w (alphanumerics and the underscore)
WordChars == {DigitChars[k] : k \in 1..10}
                \cup {"a", "b", "k", "m", "l", "P", "o", "i", "n", "t", "_"}

\* re: \s, and the characters str.strip() removes
SpaceChars == {" "}

\* str.strip()
RECURSIVE LStrip(_)
LStrip(s) ==
    IF s # <<>> /\ Head(s) \in SpaceChars THEN LStrip(Tail(s)) ELSE s

RECURSIVE RStrip(_)
RStrip(s) ==
    IF s # <<>> /\ s[Len(s)] \in SpaceChars
    THEN RStrip(SubSeq(s, 1, Len(s) - 1))
    ELSE s

Strip(s) == LStrip(RStrip(s))

\* re.sub(r'[^...]', '_', s): every character outside `keep` becomes "_"
ReSubNotIn(keep, s) ==
    [k \in 1..Len(s) |-> IF s[k] \in keep THEN s[k] ELSE "_"]

\* re.sub(r'[...]+', '_', s): every maximal run of characters of `class` becomes "_"
RECURSIVE ReSubRuns(_, _)
ReSubRuns(class, s) ==
    IF s = <<>> THEN <<>>
    ELSE IF Head(s) \in class
         THEN IF Len(s) > 1 /\ s[2] \in class
              THEN ReSubRuns(class, Tail(s))
              ELSE <<"_">> \o ReSubRuns(class, Tail(s))
         ELSE <<Head(s)>> \o ReSubRuns(class, Tail(s))

\* create_dji_mission_kml, lines 204-205
CleanName(name) ==
    ReSubRuns(SpaceChars,
              Strip(ReSubNotIn(WordChars \cup {"-", "_"} \cup SpaceChars, name)))

\* a sanitization that forgets the whitespace step of line 296
CleanAttributeNoCollapse(attr) ==
    ReSubNotIn(WordChars \cup {"-", "_"} \cup SpaceChars, attr)

\* process_all_points, lines 295-296
CleanAttribute(attr) ==
    ReSubRuns(SpaceChars,
              Strip(ReSubNotIn(WordChars \cup {"-", "_"} \cup SpaceChars, attr)))

(***************************************************************************)
(* extract_html_table_attribute_from_text                                  *)
(*                                                                         *)
(* An annotation is a sequence of tokens: "trbg" is a <tr ...> tag whose    *)
(* attributes hold the word background, "tr" any other <tr ...> tag, "/tr" *)
(* a </tr>, "td" a cell <td ...>content</td>, "text" anything else.  The   *)
(* content of a cell is a string in which "<b>" stands for a markup tag.   *)
(***************************************************************************)
TagItems == {"<b>"}

Token(tag, content) == [tag |-> tag, content |-> content]

\* the least element of a non-empty set of integers
Min(S) == CHOOSE x \in S : \A y \in S : x <= y

\* re.sub(r'<[^>]+>', '', s)
RemoveTags(s) == SelectSeq(s, LAMBDA c : c \notin TagItems)

\* re.search(r'<tr[^>]*background[^>]*>.*?<td[^>]*>(.*?)</td>', .., re.DOTALL):
\* the leftmost <tr ..background..> that is followed by a cell, and lazily the
\* first cell after it; 0 when there is no match
MatchCell(html) ==
    LET rows == {r \in 1..Len(html) : html[r].tag = "trbg"}
        cellsAfter(r) == {c \in (r + 1)..Len(html) : html[c].tag = "td"}
        starts == {r \in rows : cellsAfter(r) # {}}
    IN  IF starts = {} THEN 0 ELSE Min(cellsAfter(Min(starts)))

ExtractHtmlTableAttribute(html) ==
    IF html = <<>> THEN None
    ELSE LET c == MatchCell(html)
         IN  IF c = 0 THEN None
             ELSE LET a == Strip(RemoveTags(Strip(html[c].content)))
                  IN  IF a # <<>> THEN a ELSE None

(***************************************************************************)
(* Markup documents                                                        *)
(*                                                                         *)
(* Missing: the file does not exist.  Malformed: ET.parse raises.         *)
(* Xml(nodes): a well-formed document and the nodes the code looks up, in  *)
(* document order (coordinate nodes in base.kml, placemarks elsewhere).  A *)
(* coordinate node is [ns, text]: ns says whether the element is in the    *)
(* KML namespace, text is its text (<<>> when the element has none).  A    *)
(* placemark is [ns, coordinates, name, description]: its coordinate       *)
(* nodes in document order, the text of the name element its lookup finds  *)
(* (<<>> when there is none or it is empty), and the annotation of its     *)
(* description element (<<>> likewise).                                    *)
(***************************************************************************)
Missing == [kind |-> "missing", nodes |-> <<>>]
Malformed == [kind |-> "malformed", nodes |-> <<>>]
Xml(nodes) == [kind |-> "xml", nodes |-> nodes]

CoordNode(ns, text) == [ns |-> ns, text |-> text]

Placemark(ns, coordinates, name, description) ==
    [ns |-> ns, coordinates |-> coordinates, name |-> name,
     description |-> description]

\* str.split(','): never empty, "" splits into [""]
RECURSIVE Split(_)
Split(s) ==
    IF \A k \in 1..Len(s) : s[k] # ","
    THEN <<s>>
    ELSE LET k == Min({j \in 1..Len(s) : s[j] = ","})
         IN  <<SubSeq(s, 1, k - 1)>> \o Split(SubSeq(s, k + 1, Len(s)))

\* float(c) raises ValueError unless c, stripped, is a number (here: digits)
IsFloat(c) ==
    LET t == Strip(c)
    IN  t # <<>> /\ \A k \in 1..Len(t) : \E d \in 1..10 : DigitChars[d] = t[k]

DigitValue(ch) == (CHOOSE d \in 1..10 : DigitChars[d] = ch) - 1

RECURSIVE DecimalValue(_)
DecimalValue(t) ==
    IF t = <<>> THEN 0
    ELSE 10 * DecimalValue(SubSeq(t, 1, Len(t) - 1)) + DigitValue(t[Len(t)])

\* float(c), for a c with IsFloat(c)
Float(c) == DecimalValue(Strip(c))

\* root.find('.//kml:coordinates', namespace), then root.find('.//coordinates'):
\* the first namespaced node, or else the first node without namespace; 0 if none
FindFirst(nodes) ==
    LET q == {k \in 1..Len(nodes) : nodes[k].ns}
        u == {k \in 1..Len(nodes) : ~nodes[k].ns}
    IN  IF q # {} THEN Min(q) ELSE IF u # {} THEN Min(u) ELSE 0

\* lines 54-63 and 95-102: the outcome of reading one coordinates element.
\* "skip": no element, no text or fewer than two components; "raise": float()
\* raised ValueError; "ok": the point
ReadCoordinates(nodes) ==
    LET k == FindFirst(nodes)
    IN  IF k = 0 \/ nodes[k].text = <<>>
        THEN [kind |-> "skip", point |-> None]
        ELSE LET coords == Split(Strip(nodes[k].text))
             IN  IF Len(coords) < 2
                 THEN [kind |-> "skip", point |-> None]
                 ELSE IF ~IsFloat(coords[1]) \/ ~IsFloat(coords[2])
                         \/ (Len(coords) > 2 /\ ~IsFloat(coords[3]))
                      THEN [kind |-> "raise", point |-> None]
                      ELSE [kind |-> "ok",
                            point |-> <<Float(coords[1]), Float(coords[2]),
                                        IF Len(coords) > 2 THEN Float(coords[3])
                                        ELSE 0>>]

\* a single-point mode that goes on to the next node when one cannot be used
RECURSIVE ParseKmlPointFirstUsable(_)
ParseKmlPointFirstUsable(doc) ==
    IF doc.kind = "malformed" \/ doc.nodes = <<>> THEN None
    ELSE LET r == ReadCoordinates(<<Head(doc.nodes)>>)
         IN  IF r.kind = "ok" THEN r.point
             ELSE ParseKmlPointFirstUsable(Xml(Tail(doc.nodes)))

\* parse_kml_point, lines 36-68
ParseKmlPoint(doc) ==
    IF doc.kind = "malformed" THEN None
    ELSE LET r == ReadCoordinates(doc.nodes)
         IN  IF r.kind = "ok" THEN r.point ELSE None

\* a get_base_point that does not check what parse_kml_point returned
GetBasePointUnchecked(doc) ==
    IF doc.kind = "missing"
    THEN [raised |-> TRUE, point |-> None]
    ELSE [raised |-> FALSE, point |-> ParseKmlPoint(doc)]

\* get_base_point, lines 157-170: the point, or raised
GetBasePoint(doc) ==
    IF doc.kind = "missing"
    THEN [raised |-> TRUE, point |-> None]
    ELSE LET p == ParseKmlPoint(doc)
         IN  IF p = None THEN [raised |-> TRUE, point |-> None]
             ELSE [raised |-> FALSE, point |-> p]

\* str(n) for n >= 0
RECURSIVE Str(_)
Str(n) ==
    IF n < 10 THEN <<DigitChars[n + 1]>>
    ELSE Str(n \div 10) \o <<DigitChars[(n % 10) + 1]>>

\* f"Point_{i+1}", line 108
DefaultName(idx) == <<"P", "o", "i", "n", "t", "_">> \o Str(idx + 1)

\* root.findall('.//kml:Placemark', namespace), then root.findall('.//Placemark')
FindAllPlacemarks(doc) ==
    LET q == SelectSeq(doc.nodes, LAMBDA p : p.ns)
    IN  IF q # <<>> THEN q ELSE SelectSeq(doc.nodes, LAMBDA p : ~p.ns)

\* lines 104-124: the record of a placemark whose coordinates were read
PointRecord(placemark, idx, point) ==
    [name |-> IF placemark.name # <<>> THEN placemark.name ELSE DefaultName(idx),
     coordinates |-> point,
     description |-> placemark.description,
     table_attribute |-> ExtractHtmlTableAttribute(placemark.description)]

\* a loop that numbers the default names by the points found so far
RECURSIVE ParsePlacemarksCounting(_, _, _)
ParsePlacemarksCounting(placemarks, idx, acc) ==
    IF idx >= Len(placemarks) THEN acc
    ELSE LET pm == placemarks[idx + 1]
             r == ReadCoordinates(pm.coordinates)
         IN  IF r.kind = "raise" THEN acc
             ELSE IF r.kind = "skip"
                  THEN ParsePlacemarksCounting(placemarks, idx + 1, acc)
             ELSE ParsePlacemarksCounting(placemarks, idx + 1,
                                          Append(acc, PointRecord(pm, Len(acc), r.point)))

\* the loop of lines 89-124 from index idx on, with the except of line 126:
\* a ValueError ends the loop and the points found so far are returned
RECURSIVE ParsePlacemarks(_, _, _)
ParsePlacemarks(placemarks, idx, acc) ==
    IF idx >= Len(placemarks) THEN acc
    ELSE LET pm == placemarks[idx + 1]
             r == ReadCoordinates(pm.coordinates)
         IN  IF r.kind = "raise" THEN acc
             ELSE IF r.kind = "skip" THEN ParsePlacemarks(placemarks, idx + 1, acc)
             ELSE ParsePlacemarks(placemarks, idx + 1,
                                  Append(acc, PointRecord(pm, idx, r.point)))

\* parse_all_kml_points, lines 70-129
ParseAllKmlPoints(doc) ==
    IF doc.kind = "malformed" THEN <<>>
    ELSE ParsePlacemarks(FindAllPlacemarks(doc), 0, <<>>)

(***************************************************************************)
(* File names and the output                                               *)
(***************************************************************************)
\* the code points of the characters that occur in file names
Ord(c) ==
    CASE c = " " -> 32 [] c = "-" -> 45 [] c = "." -> 46
      [] c = "P" -> 80 [] c = "_" -> 95 [] c = "a" -> 97 [] c = "b" -> 98
      [] c = "i" -> 105 [] c = "k" -> 107 [] c = "l" -> 108 [] c = "m" -> 109
      [] c = "n" -> 110 [] c = "o" -> 111 [] c = "t" -> 116
      [] OTHER -> 48 + DigitValue(c)

\* s < t for two strings (the order of sorted() on paths of one directory)
RECURSIVE StrLess(_, _)
StrLess(s, t) ==
    IF t = <<>> THEN FALSE
    ELSE IF s = <<>> THEN TRUE
    ELSE IF Head(s) # Head(t) THEN Ord(Head(s)) < Ord(Head(t))
    ELSE StrLess(Tail(s), Tail(t))

\* one insertion of sorted()
RECURSIVE Insert(_, _)
Insert(f, sorted) ==
    IF sorted = <<>> THEN <<f>>
    ELSE IF StrLess(f, Head(sorted)) THEN <<f>> \o sorted
    ELSE <<Head(sorted)>> \o Insert(f, Tail(sorted))

\* the files in the order the file system enumerated them
Unsorted(listing) == listing

\* sorted(self.input_points_kml_dir.glob("*.kml")), line 183
RECURSIVE Sorted(_)
Sorted(listing) ==
    IF listing = <<>> THEN <<>>
    ELSE Insert(Head(listing), Sorted(Tail(listing)))

KmlSuffix == <<".", "k", "m", "l">>

\* kml_file.stem
Stem(f) == SubSeq(f, 1, Len(f) - Len(KmlSuffix))

\* the width of {i:03d}
FileNumberWidth == 3

\* f"{i:03d}", line 289
RECURSIVE ZeroPad(_, _)
ZeroPad(s, width) == IF Len(s) >= width THEN s ELSE ZeroPad(<<"0">> \o s, width)

FileNumber(idx) == ZeroPad(Str(idx), FileNumberWidth)

\* Python's truth value of a table_attribute
Truthy(attr) == attr # None /\ attr # <<>>

\* a file name that leaves the number out when there is a label
FileNameLabelOnly(idx, table_attribute) ==
    IF Truthy(table_attribute)
    THEN CleanAttribute(table_attribute) \o KmlSuffix
    ELSE FileNumber(idx) \o KmlSuffix

\* lines 289-299: "_".join(filename_parts) + ".kml"
FileName(idx, table_attribute) ==
    IF Truthy(table_attribute)
    THEN FileNumber(idx) \o <<"_">> \o CleanAttribute(table_attribute) \o KmlSuffix
    ELSE FileNumber(idx) \o KmlSuffix

\* create_dji_mission_kml, lines 198-254: the parts of the template that vary
CreateDjiMissionKml(base, target, name) ==
    [document_name |-> CleanName(name) \o KmlSuffix,
     placemark_name |-> CleanName(name),
     coordinates |-> <<base, target>>]

\* open(output_file, 'w') and f.write(kml_content), lines 303-304
WriteTo(dir, filename, content) ==
    [f \in DOMAIN dir \cup {filename} |-> IF f = filename THEN content ELSE dir[f]]

\* lines 187-194: the records get_destination_points makes of one file's points
DestinationRecords(f, pts) ==
    [k \in 1..Len(pts) |->
        [filename |-> Stem(f),
         name |-> pts[k].name,
         coordinates |-> pts[k].coordinates,
         table_attribute |-> pts[k].table_attribute,
         kml_path |-> f]]

(***************************************************************************)
(* The inputs of the model                                                 *)
(***************************************************************************)
SeqsUpTo(S, n) == UNION {[1..k -> S] : k \in 0..n}

\* every enumeration of a set of files
Enumerations(S) ==
    {f \in [1..Cardinality(S) -> S] : \A x \in S : \E k \in DOMAIN f : f[k] = x}

\* texts of a coordinates element: none, "1", " 1,2 ", "3,4,5", "x,2", "1,2,x"
CoordTexts ==
    {<<>>, <<"1">>, <<" ", "1", ",", "2", " ">>, <<"3", ",", "4", ",", "5">>,
     <<"x", ",", "2">>, <<"1", ",", "2", ",", "x">>}

\* annotations whose header cell reads "a." and "a_", and one without a table
HeaderRow(label) ==
    <<Token("trbg", <<>>), Token("td", label), Token("/tr", <<>>)>>

\* the nodes of base.kml
BaseDocs ==
    {Missing, Malformed}
        \cup {Xml(n) : n \in SeqsUpTo({CoordNode(ns, t) : ns \in BOOLEAN, t \in CoordTexts},
                                      MaxNodes)}

\* the bases of the runs: every way to fail, and a base that resolves
RunBases ==
    {Missing, Malformed, Xml(<<>>), Xml(<<CoordNode(TRUE, <<"1">>)>>),
     Xml(<<CoordNode(TRUE, <<"7", ",", "8">>)>>)}

\* the placemarks of the runs: without label, and with two labels that
\* sanitize to the same string
RunPlacemarks ==
    {Placemark(TRUE, <<CoordNode(TRUE, <<"1", ",", "2">>)>>, <<"a">>, <<>>),
     Placemark(TRUE, <<CoordNode(TRUE, <<"3", ",", "4", ",", "5">>)>>, <<>>,
               HeaderRow(<<"a", ".">>)),
     Placemark(TRUE, <<CoordNode(TRUE, <<"5", ",", "6">>)>>, <<"b", " ", "b">>,
               HeaderRow(<<"a", "_">>))}

RunDocs == {Malformed} \cup {Xml(m) : m \in SeqsUpTo(RunPlacemarks, MaxMarkers)}

FileNames ==
    {<<"a">> \o KmlSuffix, <<"a", "-">> \o KmlSuffix, <<"b">> \o KmlSuffix}

NoDir == [exists |-> FALSE, docs |-> <<>>]

\* the number of placemarks of the documents d[f], f in N
RECURSIVE CountPlacemarks(_, _)
CountPlacemarks(d, N) ==
    IF N = {} THEN 0
    ELSE LET f == CHOOSE x \in N : TRUE
         IN  Len(d[f].nodes) + CountPlacemarks(d, N \ {f})

\* no directory, or at most MaxDocs files that hold at most MaxMarkers placemarks
RunDirs ==
    {NoDir} \cup
    {[exists |-> TRUE, docs |-> d] :
        d \in UNION {{e \in [N -> RunDocs] : CountPlacemarks(e, N) <= MaxMarkers} :
                        N \in {M \in SUBSET FileNames : Cardinality(M) <= MaxDocs}}}

(***************************************************************************)
(* process_all_points, one action per step of its loops                    *)
(***************************************************************************)
otherVars == <<kml_file, points, html_text, attribute, mission_name,
               clean_name, clean_attribute>>

Idle ==
    /\ kml_file = Malformed /\ points = <<>>
    /\ html_text = <<>> /\ attribute = None
    /\ mission_name = <<>> /\ clean_name = None /\ clean_attribute = None

RunIdle ==
    /\ base_kml = Missing /\ input_points_kml = NoDir
    /\ glob_order = <<>> /\ files = <<>>
    /\ base_point = None /\ destination_points = <<>> /\ i = 0
    /\ output_paths = <<>> /\ written = <<>>

Init ==
    /\ pc = "start"
    /\ base_kml \in RunBases
    /\ input_points_kml \in RunDirs
    /\ glob_order = <<>> /\ files = <<>>
    /\ base_point = None /\ destination_points = <<>> /\ i = 0
    /\ output_paths = <<>> /\ written = <<>>
    /\ Idle

\* lines 261-264, and 310-312 when get_base_point raises
ReadBasePoint ==
    /\ pc = "start"
    /\ LET r == GetBasePoint(base_kml)
       IN  IF r.raised
           THEN pc' = "exit1" /\ UNCHANGED base_point
           ELSE pc' = "dest" /\ base_point' = r.point
    /\ UNCHANGED <<base_kml, input_points_kml, glob_order, files,
                   destination_points, i, output_paths, written, otherVars>>

\* lines 177-183: the directory is enumerated in any order and sorted
ListFiles ==
    /\ pc = "dest"
    /\ IF ~input_points_kml.exists
       THEN pc' = "check" /\ UNCHANGED <<glob_order, files>>
       ELSE \E listing \in Enumerations(DOMAIN input_points_kml.docs) :
                /\ glob_order' = listing
                /\ files' = Sorted(listing)
                /\ pc' = IF listing = <<>> THEN "check" ELSE "parse"
    /\ UNCHANGED <<base_kml, input_points_kml, base_point, destination_points,
                   i, output_paths, written, otherVars>>

\* a step in which a document that does not parse ends the run
ParseFileAborting ==
    /\ pc = "parse"
    /\ files # <<>>
    /\ LET kml == Head(files)
           doc == input_points_kml.docs[kml]
       IN  IF doc.kind = "malformed"
           THEN pc' = "exit1" /\ UNCHANGED <<files, destination_points>>
           ELSE /\ destination_points' =
                      destination_points \o DestinationRecords(kml, ParseAllKmlPoints(doc))
                /\ files' = Tail(files)
                /\ pc' = IF Tail(files) = <<>> THEN "check" ELSE "parse"
    /\ UNCHANGED <<base_kml, input_points_kml, glob_order, base_point, i,
                   output_paths, written, otherVars>>

\* lines 183-194: one iteration of the loop over the sorted files
ParseFile ==
    /\ pc = "parse"
    /\ files # <<>>
    /\ LET kml == Head(files)
           pts == ParseAllKmlPoints(input_points_kml.docs[kml])
       IN  destination_points' = destination_points \o DestinationRecords(kml, pts)
    /\ files' = Tail(files)
    /\ pc' = IF Tail(files) = <<>> THEN "check" ELSE "parse"
    /\ UNCHANGED <<base_kml, input_points_kml, glob_order, base_point, i,
                   output_paths, written, otherVars>>

\* lines 270-281: return when there are no points, else enter the loop at 1
CheckPoints ==
    /\ pc = "check"
    /\ IF destination_points = <<>>
       THEN pc' = "done" /\ UNCHANGED i
       ELSE pc' = "write" /\ i' = 1
    /\ UNCHANGED <<base_kml, input_points_kml, glob_order, files, base_point,
                   destination_points, output_paths, written, otherVars>>

\* lines 281-306: one iteration of the loop over the destination points
WriteFile ==
    /\ pc = "write"
    /\ LET point_data == destination_points[i]
           kml_content == CreateDjiMissionKml(base_point, point_data.coordinates,
                                              point_data.name)
           filename == FileName(i, point_data.table_attribute)
       IN  /\ output_paths' = WriteTo(output_paths, filename, kml_content)
           /\ written' = Append(written, filename)
    /\ IF i = Len(destination_points)
       THEN pc' = "done" /\ UNCHANGED i
       ELSE pc' = "write" /\ i' = i + 1
    /\ UNCHANGED <<base_kml, input_points_kml, glob_order, files, base_point,
                   destination_points, otherVars>>

Next ==
    \/ ReadBasePoint
    \/ ListFiles
    \/ ParseFile
    \/ CheckPoints
    \/ WriteFile

Spec == Init /\ [][Next]_vars

(***************************************************************************)
(* get_base_point alone, on every base document                            *)
(***************************************************************************)
InitBase ==
    /\ pc = "start"
    /\ base_kml \in BaseDocs
    /\ input_points_kml = NoDir
    /\ glob_order = <<>> /\ files = <<>>
    /\ base_point = None /\ destination_points = <<>> /\ i = 0
    /\ output_paths = <<>> /\ written = <<>>
    /\ Idle

NextBase == ReadBasePoint

SpecBase == InitBase /\ [][NextBase]_vars

(***************************************************************************)
(* parse_all_kml_points alone                                              *)
(***************************************************************************)
\* the coordinates of a placemark: no element, or one element
ParseCoordinates ==
    {<<>>} \cup
    {<<CoordNode(TRUE, t)>> :
        t \in {<<"1">>, <<" ", "1", ",", "2", " ">>, <<"3", ",", "4", ",", "5">>,
               <<"x", ",", "2">>}}

ParsePlacemarkSet ==
    {Placemark(ns, c, n, <<>>) :
        ns \in BOOLEAN, c \in ParseCoordinates, n \in {<<>>, <<"a">>}}

ParseDocs == {Malformed} \cup {Xml(m) : m \in SeqsUpTo(ParsePlacemarkSet, MaxPlacemarks)}

InitParse ==
    /\ pc = "call"
    /\ kml_file \in ParseDocs
    /\ points = <<>>
    /\ html_text = <<>> /\ attribute = None
    /\ mission_name = <<>> /\ clean_name = None /\ clean_attribute = None
    /\ RunIdle

\* a call of parse_all_kml_points(kml_file)
ParseAllCall ==
    /\ pc = "call"
    /\ points' = ParseAllKmlPoints(kml_file)
    /\ pc' = "return"
    /\ UNCHANGED <<runVars, kml_file, html_text, attribute, mission_name,
                   clean_name, clean_attribute>>

NextParse == ParseAllCall

SpecParse == InitParse /\ [][NextParse]_vars

(***************************************************************************)
(* extract_html_table_attribute_from_text alone                            *)
(***************************************************************************)
\* cell contents: "a", " <b> b " and "<b>"
CellContents == {<<"a">>, <<" ", "<b>", " ", "b", " ">>, <<"<b>">>}

Tokens ==
    {Token(t, <<>>) : t \in {"trbg", "tr", "/tr", "text"}}
        \cup {Token("td", c) : c \in CellContents}

InitExtract ==
    /\ pc = "call"
    /\ html_text \in SeqsUpTo(Tokens, MaxTokens)
    /\ attribute = None
    /\ kml_file = Malformed /\ points = <<>>
    /\ mission_name = <<>> /\ clean_name = None /\ clean_attribute = None
    /\ RunIdle

\* a call of extract_html_table_attribute_from_text(html_text)
ExtractCall ==
    /\ pc = "call"
    /\ attribute' = ExtractHtmlTableAttribute(html_text)
    /\ pc' = "return"
    /\ UNCHANGED <<runVars, kml_file, points, html_text, mission_name,
                   clean_name, clean_attribute>>

NextExtract == ExtractCall

SpecExtract == InitExtract /\ [][NextExtract]_vars

(***************************************************************************)
(* The two sanitizations of one iteration of the loop of process_all_points*)
(* (line 282 calls create_dji_mission_kml, lines 295-296 clean the label), *)
(* both given the same string                                              *)
(***************************************************************************)
Alphabet == {"a", "1", "_", "-", " ", "."}

InitSanitize ==
    /\ pc = "call"
    /\ mission_name \in SeqsUpTo(Alphabet, MaxLen)
    /\ clean_name = None /\ clean_attribute = None
    /\ kml_file = Malformed /\ points = <<>>
    /\ html_text = <<>> /\ attribute = None
    /\ RunIdle

\* lines 204-205
CleanNameStep ==
    /\ pc = "call"
    /\ clean_name' = CleanName(mission_name)
    /\ pc' = "named"
    /\ UNCHANGED <<runVars, kml_file, points, html_text, attribute,
                   mission_name, clean_attribute>>

\* lines 295-296
CleanAttributeStep ==
    /\ pc = "named"
    /\ clean_attribute' = CleanAttribute(mission_name)
    /\ pc' = "return"
    /\ UNCHANGED <<runVars, kml_file, points, html_text, attribute,
                   mission_name, clean_name>>

NextSanitize ==
    \/ CleanNameStep
    \/ CleanAttributeStep

SpecSanitize == InitSanitize /\ [][NextSanitize]_vars

(***************************************************************************)
(* Properties of a run (Spec)                                              *)
(***************************************************************************)
\* the text of the coordinates of base.kml has fewer than two components
FewerThanTwoComponents(doc) ==
    \/ doc.nodes = <<>>
    \/ doc.nodes[1].text = <<>>
    \/ Len(Split(Strip(doc.nodes[1].text))) < 2

BaseUnresolvable ==
    \/ base_kml.kind \in {"missing", "malformed"}
    \/ base_kml.kind = "xml" /\ FewerThanTwoComponents(base_kml)

\* C1: when base.kml is missing, malformed or has fewer than two coordinate
\* components, the run can only end with exit status 1, and in none of its
\* states has a file been written, whatever the destination documents hold.
C1_NoOutputWithoutBase ==
    BaseUnresolvable =>
        /\ pc \in {"start", "exit1"}
        /\ pc = "start" => ENABLED ReadBasePoint
        /\ written = <<>>
        /\ output_paths = <<>>

\* a run that failed on a one-component base although the directory holds points
C1_Witness ==
    /\ pc = "exit1"
    /\ base_kml = Xml(<<CoordNode(TRUE, <<"1">>)>>)
    /\ input_points_kml.exists
    /\ \E f \in DOMAIN input_points_kml.docs : input_points_kml.docs[f].nodes # <<>>

\* C2: the file names of two different target points differ, so no write
\* overwrites an earlier one and, at the end of the run, there are as many
\* files as extracted points.
C2_CollisionFree ==
    /\ \A j, k \in 1..Len(written) : j # k => written[j] # written[k]
    /\ Cardinality(DOMAIN output_paths) = Len(written)
    /\ pc \in {"write", "done"} =>
          \A j, k \in 1..Len(destination_points) :
              j # k => FileName(j, destination_points[j].table_attribute)
                          # FileName(k, destination_points[k].table_attribute)
    /\ pc = "done" => Cardinality(DOMAIN output_paths) = Len(destination_points)

\* a finished run with points without label, and with two different labels
\* that sanitize to the same string
C2_Witness ==
    /\ pc = "done"
    /\ \E j, k, l \in 1..Len(destination_points) :
          LET a == destination_points[j].table_attribute
              b == destination_points[k].table_attribute
          IN  /\ Truthy(a) /\ Truthy(b) /\ a # b
              /\ CleanAttribute(a) = CleanAttribute(b)
              /\ ~Truthy(destination_points[l].table_attribute)

\* the n-th file of S in lexicographic order: the one with n - 1 files before it
NthFile(S, n) ==
    CHOOSE f \in S : Cardinality({g \in S : StrLess(g, f)}) = n - 1

\* the points of the documents docs[f], f in S, in lexicographic order of f
RECURSIVE PointsFrom(_, _, _)
PointsFrom(docs, S, n) ==
    IF n > Cardinality(S) THEN <<>>
    ELSE LET f == NthFile(S, n)
         IN  DestinationRecords(f, ParseAllKmlPoints(docs[f])) \o PointsFrom(docs, S, n + 1)

AllFiles == IF input_points_kml.exists THEN DOMAIN input_points_kml.docs ELSE {}

\* the sequence number a file name starts with
SequenceNumber(filename) == DecimalValue(SubSeq(filename, 1, FileNumberWidth))

\* C3: the points are taken file by file in lexicographic order of the file
\* names, whatever order the directory was enumerated in, and in document
\* order within a file; the k-th of them is written under the 3-digit number
\* k; the counter starts at 1, grows by one per written file and is not reset
\* between documents.
C3_GlobalSequence ==
    /\ pc \in {"check", "write", "done"} =>
          destination_points = PointsFrom(input_points_kml.docs, AllFiles, 1)
    /\ pc = "write" => i = Len(written) + 1
    /\ pc = "done" /\ destination_points # <<>> =>
          i = Len(written) /\ i = Len(destination_points)
    /\ \A k \in 1..Len(written) :
          /\ SequenceNumber(written[k]) = k
          /\ written[k][FileNumberWidth + 1] \in {"_", "."}
          /\ output_paths[written[k]].coordinates
                = <<base_point,
                    PointsFrom(input_points_kml.docs, AllFiles, 1)[k].coordinates>>

\* a finished run over a directory that was not enumerated in sorted order,
\* whose first file gave two points and whose second file gave the third
C3_Witness ==
    /\ pc = "done"
    /\ Len(written) >= 3
    /\ \E k \in 1..(Len(glob_order) - 1) : StrLess(glob_order[k + 1], glob_order[k])
    /\ destination_points[1].kml_path = destination_points[2].kml_path
    /\ destination_points[2].kml_path # destination_points[3].kml_path

WellFormedFiles == {f \in AllFiles : input_points_kml.docs[f].kind # "malformed"}

\* the files written for the points pts, from the number n on
RECURSIVE FilesFor(_, _, _)
FilesFor(base, pts, n) ==
    IF n > Len(pts) THEN <<>>
    ELSE WriteTo(FilesFor(base, pts, n + 1),
                 FileName(n, pts[n].table_attribute),
                 CreateDjiMissionKml(base, pts[n].coordinates, pts[n].name))

\* C4: a destination document that does not parse gives no point and does
\* not end the run: the points, and the files written, are those of the
\* directory without the malformed documents, the run exits with status 1
\* only when the base point was not resolved, and while files are left the
\* next one can be parsed.
C4_MalformedSkipped ==
    /\ pc \in {"check", "write", "done"} =>
          destination_points = PointsFrom(input_points_kml.docs, WellFormedFiles, 1)
    /\ pc = "done" =>
          output_paths
              = FilesFor(base_point,
                         PointsFrom(input_points_kml.docs, WellFormedFiles, 1), 1)
    /\ pc = "exit1" => base_point = None /\ destination_points = <<>>
    /\ pc = "parse" => files # <<>> /\ Head(files) \in AllFiles

\* a finished run that wrote a file for a point of a document that comes
\* after a malformed one
C4_Witness ==
    /\ pc = "done"
    /\ written # <<>>
    /\ \E f \in AllFiles, k \in 1..Len(destination_points) :
          /\ input_points_kml.docs[f].kind = "malformed"
          /\ StrLess(f, destination_points[k].kml_path)

\* two points of the run whose labels sanitize to the same string
SameLabel(j, k) ==
    /\ j < k
    /\ Truthy(destination_points[j].table_attribute)
    /\ Truthy(destination_points[k].table_attribute)
    /\ CleanAttribute(destination_points[j].table_attribute)
          = CleanAttribute(destination_points[k].table_attribute)

\* C6 as stated: two points whose labels sanitize to the same string get the
\* same file name, and only the later point's document remains under it.
C6_Original ==
    pc = "done" =>
        \A j, k \in 1..Len(destination_points) :
            SameLabel(j, k) =>
                /\ written[j] = written[k]
                /\ output_paths[written[k]].coordinates
                      = <<base_point, destination_points[k].coordinates>>

\* C6, amended: two points whose labels sanitize to the same string get file
\* names that differ in the sequence number and agree after it, and both
\* documents remain, each under its own name.
C6_DistinctByNumber ==
    pc = "done" =>
        \A j, k \in 1..Len(destination_points) :
            SameLabel(j, k) =>
                /\ written[j] # written[k]
                /\ SubSeq(written[j], 1, FileNumberWidth)
                      # SubSeq(written[k], 1, FileNumberWidth)
                /\ SubSeq(written[j], FileNumberWidth + 1, Len(written[j]))
                      = SubSeq(written[k], FileNumberWidth + 1, Len(written[k]))
                /\ output_paths[written[j]].coordinates
                      = <<base_point, destination_points[j].coordinates>>
                /\ output_paths[written[k]].coordinates
                      = <<base_point, destination_points[k].coordinates>>

\* a finished run with two points at different coordinates whose labels
\* sanitize to the same string
C6_Witness ==
    /\ pc = "done"
    /\ \E j, k \in 1..Len(destination_points) :
          /\ SameLabel(j, k)
          /\ destination_points[j].coordinates # destination_points[k].coordinates

(***************************************************************************)
(* Properties of parse_all_kml_points (SpecParse)                          *)
(***************************************************************************)
\* the placemarks the parser found in kml_file, in document order
Found == FindAllPlacemarks(kml_file)

\* a placemark whose coordinate text has at least two components, all of
\* them numbers
Usable(placemark) == ReadCoordinates(placemark.coordinates).kind = "ok"

\* a placemark with a component that is not a number
NotANumber(placemark) == ReadCoordinates(placemark.coordinates).kind = "raise"

\* the positions in Found of its usable placemarks, in document order
RECURSIVE UsableFrom(_)
UsableFrom(k) ==
    IF k > Len(Found) THEN <<>>
    ELSE IF Usable(Found[k]) THEN <<k>> \o UsableFrom(k + 1)
    ELSE UsableFrom(k + 1)

\* C5: in a well-formed document every placemark with at least two numeric
\* components gives a point record, whatever is wrong with the placemarks
\* before it.
C5_EveryUsableMarkerYields ==
    pc = "return" /\ kml_file.kind = "xml" =>
        /\ Len(points) = Len(UsableFrom(1))
        /\ \A j \in 1..Len(points) :
              points[j].coordinates
                  = ReadCoordinates(Found[UsableFrom(1)[j]].coordinates).point

\* the positions in Found of the placemarks before the first one that has a
\* component that is not a number
BeforeFirstNotANumber ==
    {k \in 1..Len(Found) : \A j \in 1..k : ~NotANumber(Found[j])}

\* the positions in Found of the placemarks that are materialized
Materialized == SelectSeq(UsableFrom(1), LAMBDA k : k \in BeforeFirstNotANumber)

PointName(n) == <<"P", "o", "i", "n", "t", "_">> \o Str(n)

\* C7 as stated: a skipped placemark does not count in the default names: a
\* materialized placemark without name is called Point_<n>, n being 1 plus the
\* number of placemarks materialized before it.
C7_Original ==
    pc = "return" /\ kml_file.kind = "xml" =>
        /\ Len(points) = Len(Materialized)
        /\ \A j \in 1..Len(points) :
              Found[Materialized[j]].name = <<>> => points[j].name = PointName(j)

\* C7, amended: a placemark with fewer than two coordinate components is left
\* out of the output but counts in the default names: a materialized
\* placemark without name is called Point_<n>, n being its position among all
\* the placemarks found in the document.
C7_OrdinalIsPosition ==
    pc = "return" /\ kml_file.kind = "xml" =>
        /\ Len(points) = Len(Materialized)
        /\ \A j \in 1..Len(points) :
              /\ Found[Materialized[j]].name = <<>> =>
                    points[j].name = PointName(Materialized[j])
              /\ Found[Materialized[j]].name # <<>> =>
                    points[j].name = Found[Materialized[j]].name

\* a parsed document in which a skipped placemark comes before a
\* materialized placemark without name
C7_Witness ==
    /\ pc = "return"
    /\ kml_file.kind = "xml"
    /\ \E j \in 1..Len(Materialized) :
          /\ Found[Materialized[j]].name = <<>>
          /\ Materialized[j] # j
          /\ points[j].name = PointName(Materialized[j])

(***************************************************************************)
(* Properties of the single-point mode (SpecBase)                          *)
(***************************************************************************)
\* the positions of the coordinate nodes of base.kml that give a point
UsableNodes ==
    {k \in 1..Len(base_kml.nodes) :
        ReadCoordinates(<<base_kml.nodes[k]>>).kind = "ok"}

LookedUp ==
    LET n == base_kml.nodes
    IN  IF \E k \in 1..Len(n) : n[k].ns
        THEN CHOOSE k \in 1..Len(n) : n[k].ns /\ \A j \in 1..(k - 1) : ~n[j].ns
        ELSE IF n # <<>> THEN 1 ELSE 0

FirstCellInRow(html) ==
    LET rows == {r \in 1..Len(html) : html[r].tag = "trbg"}
        closes(r) == {c \in (r + 1)..Len(html) : html[c].tag = "/tr"}
        rowEnd(r) == IF closes(r) = {} THEN Len(html) + 1 ELSE Min(closes(r))
        cellsIn(r) == {c \in (r + 1)..(rowEnd(r) - 1) : html[c].tag = "td"}
    IN  IF rows = {} \/ cellsIn(Min(rows)) = {} THEN 0 ELSE Min(cellsIn(Min(rows)))

\* C9: the result is the text of the first cell inside the first row with a
\* background marker, and absence when that row holds no cell.
C9_CellOfHeaderRow ==
    pc = "return" =>
        LET c == FirstCellInRow(html_text)
        IN  IF c = 0 THEN attribute = None
            ELSE LET a == Strip(RemoveTags(Strip(html_text[c].content)))
                 IN  attribute = IF a # <<>> THEN a ELSE None

(***************************************************************************)
(* Properties of the sanitization (SpecSanitize)                           *)
(***************************************************************************)
\* alphanumerics, underscore and hyphen, among the characters of Alphabet
CleanChars == {"a", "1", "_", "-"}

\* C10: the sanitized string holds only alphanumerics, underscores and
\* hyphens, sanitizing it again changes nothing, and the display name and the
\* label are sanitized to the same result.
C10_Sanitization ==
    /\ pc \in {"named", "return"} =>
          /\ \A k \in 1..Len(clean_name) : clean_name[k] \in CleanChars
          /\ CleanName(clean_name) = clean_name
    /\ pc = "return" =>
          /\ \A k \in 1..Len(clean_attribute) : clean_attribute[k] \in CleanChars
          /\ CleanAttribute(clean_attribute) = clean_attribute
          /\ clean_attribute = clean_name

\* a string with a forbidden character, leading whitespace and a run of
\* whitespace inside has been sanitized at both places
C10_Witness ==
    /\ pc = "return"
    /\ Len(mission_name) >= 3
    /\ mission_name[1] = " "
    /\ \E k \in 1..Len(mission_name) : mission_name[k] = "."
    /\ clean_attribute # mission_name
    /\ clean_attribute # <<>>

====
